---------------------------- MODULE Spec2Model ----------------------------
(***************************************************************************)
(* The Tab aggregate of janno-p/cafe (src/src/domain.rs): the pure         *)
(* functions initial_state, decide and evolve of the Aggregate contract    *)
(* (src/src/cqrs.rs), and the event history they are folded from           *)
(* (EventStore.events, src/src/api.rs).                                    *)
(*                                                                         *)
(* The aggregate identifier (Uuid) carried by every command is matched by  *)
(* `_` in decide and never read, so commands are modelled without it.      *)
(* Prices are f32 in the source; they are modelled as small naturals,      *)
(* which f32 represents and adds exactly.                                  *)
(***************************************************************************)
EXTENDS Naturals, Sequences, FiniteSets

VARIABLES
  state,    \* the aggregate's State
  events,   \* the event store, by kind of event (see empty_store below)
  result,   \* what the last call of decide or evolve returned
  command,  \* a single call: the command handed to decide
  event,    \* a single call: the event handed to evolve
  given     \* a single call: the State handed to decide or evolve

vars == <<state, events, command, event, result, given>>

-----------------------------------------------------------------------------
(* Bounds of the model *)

\* longest item list of a PlaceOrder command or an Ordered event
MaxItems == 2
\* longest menu_numbers list of a serve command or a Served event
MaxNumbers == 2
\* most items a tab is let to order in all, so most items outstanding
MaxOrdered == 2
\* most menu numbers the store is let to hold in Served events in all
MaxServed == 2

-----------------------------------------------------------------------------
(* Value universes *)

MenuNumbers == {1, 2}
Prices == {1, 2}
Descriptions == {""}
TableNumbers == {7, 42}
Waiters == {"Derek", "Ann"}

\* struct OrderedItem
OrderedItem ==
  [menu_number : MenuNumbers, description : Descriptions,
   is_drink : BOOLEAN, price : Prices]

\* the items commands and events are drawn from: per kind, two entries
\* that share menu number 1 and differ in price, and one with number 2
Menu == {i \in OrderedItem : i.menu_number = 1 \/ i.price = 2}

DrinkItems == {i \in Menu : i.is_drink}
FoodItems == {i \in Menu : ~i.is_drink}

\* the served_items_value a State handed to a single call starts with
ServedValues == {0, 3}

\* all sequences over S of length at most n
SeqsUpTo(S, n) == UNION {[1..k -> S] : k \in 0..n}

\* enum Command (without the Uuid)
OpenTab(table_number, waiter) ==
  [type |-> "OpenTab", table_number |-> table_number, waiter |-> waiter]
PlaceOrder(items) == [type |-> "PlaceOrder", items |-> items]
MarkDrinksServed(menu_numbers) ==
  [type |-> "MarkDrinksServed", menu_numbers |-> menu_numbers]
MarkFoodServed(menu_numbers) ==
  [type |-> "MarkFoodServed", menu_numbers |-> menu_numbers]

\* enum Event
TabOpened(table_number, waiter) ==
  [type |-> "TabOpened", table_number |-> table_number, waiter |-> waiter]
DrinksOrdered(items) == [type |-> "DrinksOrdered", items |-> items]
FoodOrdered(items) == [type |-> "FoodOrdered", items |-> items]
DrinksServed(menu_numbers) ==
  [type |-> "DrinksServed", menu_numbers |-> menu_numbers]
FoodServed(menu_numbers) ==
  [type |-> "FoodServed", menu_numbers |-> menu_numbers]

\* enum CommandError
TabNotOpen == "TabNotOpen"
DrinksNotOutstanding == "DrinksNotOutstanding"
FoodNotOutstanding == "FoodNotOutstanding"

\* Result<Vec<Event>, CommandError>
Ok(evs) == [tag |-> "Ok", events |-> evs]
Err(e) == [tag |-> "Err", error |-> e]

\* the () evolve returns
Unit == [tag |-> "Unit"]

\* no decide call made yet / no command, no event handled yet
NoResult == [tag |-> "None"]
NoCommand == [type |-> "None"]
NoEvent == [type |-> "None"]

-----------------------------------------------------------------------------
(* Vec helpers *)

\* Iterator::position(|x| x.menu_number == menu_number): the first index
\* (1-based) of an entry with that menu number, 0 for None
position(list, menu_number) ==
  IF \E i \in 1..Len(list) : list[i].menu_number = menu_number
  THEN CHOOSE i \in 1..Len(list) :
         /\ list[i].menu_number = menu_number
         /\ \A j \in 1..(i - 1) : list[j].menu_number # menu_number
  ELSE 0

\* Vec::remove(index): the list without its index-th entry, order kept
remove(list, index) ==
  SubSeq(list, 1, index - 1) \o SubSeq(list, index + 1, Len(list))

\* Iterator::partition(pred).0 / .1 : the entries that satisfy / fail
\* is_drink, each in input order
\* the partition whose first half is every item (the fault C18 excludes)
partition_true_all(items) == items

RECURSIVE partition_true(_)
partition_true(items) ==
  IF items = <<>> THEN <<>>
  ELSE (IF Head(items).is_drink THEN <<Head(items)>> ELSE <<>>)
         \o partition_true(Tail(items))

RECURSIVE partition_false(_)
partition_false(items) ==
  IF items = <<>> THEN <<>>
  ELSE (IF Head(items).is_drink THEN <<>> ELSE <<Head(items)>>)
         \o partition_false(Tail(items))

-----------------------------------------------------------------------------
(* Tab::initial_state *)

initial_state ==
  [tab_open |-> FALSE, outstanding_drinks |-> <<>>,
   outstanding_food |-> <<>>, served_items_value |-> 0]

-----------------------------------------------------------------------------
(* State::are_drinks_outstanding / State::is_food_outstanding             *)

\* the scan with a matched entry left in the working copy, so that one
\* entry can match twice (the fault C4 excludes)
RECURSIVE scan_outstanding_reuse(_, _)
scan_outstanding_reuse(current, menu_numbers) ==
  IF menu_numbers = <<>> THEN [matched |-> TRUE, current |-> current]
  ELSE IF position(current, Head(menu_numbers)) # 0
       THEN scan_outstanding_reuse(current, Tail(menu_numbers))
       ELSE [matched |-> FALSE, current |-> current]

\* the `for menu_number in menu_numbers` loop over the working copy:
\* [matched |-> the value returned, current |-> the working copy at return]
RECURSIVE scan_outstanding(_, _)
scan_outstanding(current, menu_numbers) ==
  IF menu_numbers = <<>> THEN [matched |-> TRUE, current |-> current]
  ELSE LET index == position(current, Head(menu_numbers))
       IN  IF index # 0
           THEN scan_outstanding(remove(current, index), Tail(menu_numbers))
           ELSE [matched |-> FALSE, current |-> current]

\* the scan run on self.outstanding_drinks itself instead of a clone (the
\* fault C6 excludes)
are_drinks_outstanding_in_place(self, menu_numbers) ==
  LET scan == scan_outstanding(self.outstanding_drinks, menu_numbers)
  IN  [value |-> scan.matched,
       self |-> [self EXCEPT !.outstanding_drinks = scan.current],
       current |-> scan.current]

\* [value |-> the bool returned, self |-> *self after the call,
\*  current |-> the working copy at return].  The scan runs on a clone, so
\*  self is left as it was.
are_drinks_outstanding(self, menu_numbers) ==
  LET current_outstanding_drinks == self.outstanding_drinks
      scan == scan_outstanding(current_outstanding_drinks, menu_numbers)
  IN  [value |-> scan.matched, self |-> self, current |-> scan.current]

\* the food scan that refuses an empty list (the fault C20 excludes)
is_food_outstanding_nonempty(self, menu_numbers) ==
  LET scan == scan_outstanding(self.outstanding_food, menu_numbers)
  IN  [value |-> scan.matched /\ menu_numbers # <<>>, self |-> self,
       current |-> scan.current]

is_food_outstanding(self, menu_numbers) ==
  LET current_outstanding_food == self.outstanding_food
      scan == scan_outstanding(current_outstanding_food, menu_numbers)
  IN  [value |-> scan.matched, self |-> self, current |-> scan.current]

-----------------------------------------------------------------------------
(* Tab::decide: [result |-> the Result returned, state |-> *state after]   *)

\* OpenTab that opens a tab only once (the fault C2 excludes)
decide_open_tab_once(s, c) ==
  [result |-> IF s.tab_open THEN Ok(<<>>)
              ELSE Ok(<<TabOpened(c.table_number, c.waiter)>>),
   state |-> s]

decide_open_tab(s, c) ==
  [result |-> Ok(<<TabOpened(c.table_number, c.waiter)>>), state |-> s]

\* PlaceOrder without the tab_open test (the fault C1 excludes)
decide_place_order_unchecked(s, c) ==
  LET drinks == partition_true(c.items)
      foods == partition_false(c.items)
      food_events == IF foods # <<>> THEN <<FoodOrdered(foods)>> ELSE <<>>
      drink_events ==
        IF drinks # <<>> THEN <<DrinksOrdered(drinks)>> ELSE <<>>
  IN  [result |-> Ok(food_events \o drink_events), state |-> s]

\* PlaceOrder that pushes DrinksOrdered before FoodOrdered (the fault C3
\* excludes)
decide_place_order_drinks_first(s, c) ==
  IF s.tab_open
  THEN LET drinks == partition_true(c.items)
           foods == partition_false(c.items)
           food_events ==
             IF foods # <<>> THEN <<FoodOrdered(foods)>> ELSE <<>>
           drink_events ==
             IF drinks # <<>> THEN <<DrinksOrdered(drinks)>> ELSE <<>>
       IN  [result |-> Ok(drink_events \o food_events), state |-> s]
  ELSE [result |-> Err(TabNotOpen), state |-> s]

decide_place_order(s, c) ==
  IF s.tab_open
  THEN LET drinks == partition_true(c.items)
           foods == partition_false(c.items)
           food_events ==
             IF foods # <<>> THEN <<FoodOrdered(foods)>> ELSE <<>>
           drink_events ==
             IF drinks # <<>> THEN <<DrinksOrdered(drinks)>> ELSE <<>>
       IN  [result |-> Ok(food_events \o drink_events), state |-> s]
  ELSE [result |-> Err(TabNotOpen), state |-> s]

\* MarkDrinksServed that asks for an open tab first (the fault C19
\* excludes)
decide_mark_drinks_served_needs_tab(s, c) ==
  LET outstanding == are_drinks_outstanding(s, c.menu_numbers)
  IN  [result |-> IF ~s.tab_open THEN Err(TabNotOpen)
                  ELSE IF outstanding.value
                       THEN Ok(<<DrinksServed(c.menu_numbers)>>)
                       ELSE Err(DrinksNotOutstanding),
       state |-> outstanding.self]

decide_mark_drinks_served(s, c) ==
  LET outstanding == are_drinks_outstanding(s, c.menu_numbers)
  IN  [result |-> IF outstanding.value
                  THEN Ok(<<DrinksServed(c.menu_numbers)>>)
                  ELSE Err(DrinksNotOutstanding),
       state |-> outstanding.self]

decide_mark_food_served(s, c) ==
  LET outstanding == is_food_outstanding(s, c.menu_numbers)
  IN  [result |-> IF outstanding.value
                  THEN Ok(<<FoodServed(c.menu_numbers)>>)
                  ELSE Err(FoodNotOutstanding),
       state |-> outstanding.self]

decide(s, c) ==
  CASE c.type = "OpenTab" -> decide_open_tab(s, c)
    [] c.type = "PlaceOrder" -> decide_place_order(s, c)
    [] c.type = "MarkDrinksServed" -> decide_mark_drinks_served(s, c)
    [] c.type = "MarkFoodServed" -> decide_mark_food_served(s, c)
    [] OTHER -> [result |-> Ok(<<>>), state |-> s]

-----------------------------------------------------------------------------
(* Tab::evolve *)

\* the last index of an entry with that menu number, 0 for none
position_last(list, menu_number) ==
  IF \E i \in 1..Len(list) : list[i].menu_number = menu_number
  THEN CHOOSE i \in 1..Len(list) :
         /\ list[i].menu_number = menu_number
         /\ \A j \in (i + 1)..Len(list) : list[j].menu_number # menu_number
  ELSE 0

\* the serve loop that ends after the first entry it removes (the fault
\* C11 excludes)
serve_first_only(list, value, menu_numbers) ==
  IF menu_numbers = <<>> THEN [list |-> list, value |-> value]
  ELSE LET index == position(list, Head(menu_numbers))
       IN  IF index # 0
           THEN [list |-> remove(list, index),
                 value |-> value + list[index].price]
           ELSE [list |-> list, value |-> value]

\* the serve loop that ends at the first number it does not find (the
\* fault C12 excludes)
RECURSIVE serve_stop_at_unmatched(_, _, _)
serve_stop_at_unmatched(list, value, menu_numbers) ==
  IF menu_numbers = <<>> THEN [list |-> list, value |-> value]
  ELSE LET index == position(list, Head(menu_numbers))
       IN  IF index # 0
           THEN serve_stop_at_unmatched(remove(list, index),
                                        value + list[index].price,
                                        Tail(menu_numbers))
           ELSE [list |-> list, value |-> value]

\* the serve loop that takes the last entry with the number instead of
\* the first (the fault C13 excludes)
RECURSIVE serve_last_match(_, _, _)
serve_last_match(list, value, menu_numbers) ==
  IF menu_numbers = <<>> THEN [list |-> list, value |-> value]
  ELSE LET index == position_last(list, Head(menu_numbers))
       IN  IF index # 0
           THEN serve_last_match(remove(list, index),
                                 value + list[index].price,
                                 Tail(menu_numbers))
           ELSE serve_last_match(list, value, Tail(menu_numbers))

\* the serve loop that adds the price of the first entry of the list
\* instead of the matched one (the fault C7 excludes)
RECURSIVE serve_first_price(_, _, _)
serve_first_price(list, value, menu_numbers) ==
  IF menu_numbers = <<>> THEN [list |-> list, value |-> value]
  ELSE LET index == position(list, Head(menu_numbers))
       IN  IF index # 0
           THEN serve_first_price(remove(list, index), value + list[1].price,
                                  Tail(menu_numbers))
           ELSE serve_first_price(list, value, Tail(menu_numbers))

\* the `for menu_number in menu_numbers` loop of the DrinksServed and
\* FoodServed arms over one outstanding list:
\* [list |-> the list after, value |-> served_items_value after]
RECURSIVE serve(_, _, _)
serve(list, value, menu_numbers) ==
  IF menu_numbers = <<>> THEN [list |-> list, value |-> value]
  ELSE LET index == position(list, Head(menu_numbers))
       IN  IF index # 0
           THEN serve(remove(list, index), value + list[index].price,
                      Tail(menu_numbers))
           ELSE serve(list, value, Tail(menu_numbers))

\* TabOpened that starts the tab afresh (the fault C16 excludes)
evolve_tab_opened_afresh(s, e) == [initial_state EXCEPT !.tab_open = TRUE]

\* TabOpened that flips tab_open (the fault C9 excludes)
evolve_tab_opened_flip(s, e) == [s EXCEPT !.tab_open = ~@]

evolve_tab_opened(s, e) == [s EXCEPT !.tab_open = TRUE]

\* DrinksOrdered that puts the new items in front (the fault C10 excludes)
evolve_drinks_ordered_front(s, e) ==
  [s EXCEPT !.outstanding_drinks = e.items \o @]

evolve_drinks_ordered(s, e) ==
  [s EXCEPT !.outstanding_drinks = @ \o e.items]

\* the list with those of the items appended that it does not hold yet
RECURSIVE append_new(_, _)
append_new(list, items) ==
  IF items = <<>> THEN list
  ELSE IF \E i \in 1..Len(list) : list[i] = Head(items)
       THEN append_new(list, Tail(items))
       ELSE append_new(Append(list, Head(items)), Tail(items))

\* FoodOrdered that leaves out items the list holds already (the fault C15
\* excludes)
evolve_food_ordered_dedup(s, e) ==
  [s EXCEPT !.outstanding_food = append_new(@, e.items)]

evolve_food_ordered(s, e) ==
  [s EXCEPT !.outstanding_food = @ \o e.items]

\* DrinksServed that adds the prices and removes nothing (the fault C5
\* excludes)
evolve_drinks_served_keep(s, e) ==
  LET served == serve(s.outstanding_drinks, s.served_items_value,
                      e.menu_numbers)
  IN  [s EXCEPT !.served_items_value = served.value]

evolve_drinks_served(s, e) ==
  LET served == serve(s.outstanding_drinks, s.served_items_value,
                      e.menu_numbers)
  IN  [s EXCEPT !.outstanding_drinks = served.list,
                !.served_items_value = served.value]

\* FoodServed that adds the prices and removes nothing (the fault C17
\* excludes)
evolve_food_served_keep(s, e) ==
  LET served == serve(s.outstanding_food, s.served_items_value,
                      e.menu_numbers)
  IN  [s EXCEPT !.served_items_value = served.value]

\* FoodServed that serves from outstanding_drinks, as the DrinksServed arm
\* does (the fault C14 excludes)
evolve_food_served_from_drinks(s, e) ==
  LET served == serve(s.outstanding_drinks, s.served_items_value,
                      e.menu_numbers)
  IN  [s EXCEPT !.outstanding_drinks = served.list,
                !.served_items_value = served.value]

evolve_food_served(s, e) ==
  LET served == serve(s.outstanding_food, s.served_items_value,
                      e.menu_numbers)
  IN  [s EXCEPT !.outstanding_food = served.list,
                !.served_items_value = served.value]

evolve(s, e) ==
  CASE e.type = "TabOpened" -> evolve_tab_opened(s, e)
    [] e.type = "DrinksOrdered" -> evolve_drinks_ordered(s, e)
    [] e.type = "FoodOrdered" -> evolve_food_ordered(s, e)
    [] e.type = "DrinksServed" -> evolve_drinks_served(s, e)
    [] e.type = "FoodServed" -> evolve_food_served(s, e)
    [] OTHER -> s

\* the caller's left fold of evolve over a sequence of events
RECURSIVE fold(_, _)
fold(s, evs) ==
  IF evs = <<>> THEN s ELSE fold(evolve(s, Head(evs)), Tail(evs))

-----------------------------------------------------------------------------
(* EventStore<Event>: the events accepted so far.  The store is kept by    *)
(* kind of event, each kind in the order of acceptance: the items of all   *)
(* DrinksOrdered (FoodOrdered) events, the menu numbers of all             *)
(* DrinksServed (FoodServed) events, and whether it holds a TabOpened.     *)

empty_store ==
  [tab_opened |-> FALSE, drinks_ordered |-> <<>>, food_ordered |-> <<>>,
   drinks_served |-> <<>>, food_served |-> <<>>]

\* appending one event to the store
push(store, e) ==
  CASE e.type = "TabOpened" -> [store EXCEPT !.tab_opened = TRUE]
    [] e.type = "DrinksOrdered" ->
         [store EXCEPT !.drinks_ordered = @ \o e.items]
    [] e.type = "FoodOrdered" ->
         [store EXCEPT !.food_ordered = @ \o e.items]
    [] e.type = "DrinksServed" ->
         [store EXCEPT !.drinks_served = @ \o e.menu_numbers]
    [] e.type = "FoodServed" ->
         [store EXCEPT !.food_served = @ \o e.menu_numbers]
    [] OTHER -> store

RECURSIVE push_all(_, _)
push_all(store, evs) ==
  IF evs = <<>> THEN store ELSE push_all(push(store, Head(evs)), Tail(evs))

\* the guard that keeps the model finite
StoreInBounds(store) ==
  /\ Len(store.drinks_ordered) + Len(store.food_ordered) <= MaxOrdered
  /\ Len(store.drinks_served) + Len(store.food_served) <= MaxServed

-----------------------------------------------------------------------------
(* Inputs *)

ItemLists == SeqsUpTo(Menu, MaxItems)
NumberLists == SeqsUpTo(MenuNumbers, MaxNumbers)

Commands ==
  {OpenTab(t, w) : t \in TableNumbers, w \in Waiters}
    \cup {PlaceOrder(items) : items \in ItemLists}
    \cup {MarkDrinksServed(ns) : ns \in NumberLists}
    \cup {MarkFoodServed(ns) : ns \in NumberLists}

\* the events a caller can hand to evolve
Events ==
  {TabOpened(t, w) : t \in TableNumbers, w \in Waiters}
    \cup {DrinksOrdered(items) :
            items \in SeqsUpTo(DrinkItems, MaxItems) \ {<<>>}}
    \cup {FoodOrdered(items) :
            items \in SeqsUpTo(FoodItems, MaxItems) \ {<<>>}}
    \cup {DrinksServed(ns) : ns \in NumberLists}
    \cup {FoodServed(ns) : ns \in NumberLists}

\* the States a single call is tried on.  The fields of State are private:
\* a State is what evolve makes of initial_state, and evolve reaches each
\* of these.
States ==
  {s \in [tab_open : BOOLEAN,
          outstanding_drinks : SeqsUpTo(DrinkItems, MaxOrdered),
          outstanding_food : SeqsUpTo(FoodItems, MaxOrdered),
          served_items_value : ServedValues] :
     Len(s.outstanding_drinks) + Len(s.outstanding_food) <= MaxOrdered}

-----------------------------------------------------------------------------
(* The state after construction: a new aggregate, an empty store *)

Init ==
  /\ state = initial_state
  /\ events = empty_store
  /\ command = NoCommand
  /\ event = NoEvent
  /\ result = NoResult
  /\ given = initial_state

-----------------------------------------------------------------------------
(* The serialized loop of the caller: decide on the state folded from all  *)
(* accepted events, then fold the new events and append them to the store  *)

Handle(c) ==
  LET d == decide(state, c)
      evs == IF d.result.tag = "Ok" THEN d.result.events ELSE <<>>
  IN  /\ StoreInBounds(push_all(events, evs))
      /\ result' = d.result
      /\ state' = fold(d.state, evs)
      /\ events' = push_all(events, evs)
      /\ UNCHANGED <<command, event, given>>

HandleOpenTab ==
  \E t \in TableNumbers, w \in Waiters : Handle(OpenTab(t, w))

HandlePlaceOrder == \E items \in ItemLists : Handle(PlaceOrder(items))

HandleMarkDrinksServed ==
  \E ns \in NumberLists : Handle(MarkDrinksServed(ns))

HandleMarkFoodServed ==
  \E ns \in NumberLists : Handle(MarkFoodServed(ns))

Next ==
  \/ HandleOpenTab
  \/ HandlePlaceOrder
  \/ HandleMarkDrinksServed
  \/ HandleMarkFoodServed

Spec == Init /\ [][Next]_vars

-----------------------------------------------------------------------------
(* Replay: the caller folds a history into a State.  evolve takes any      *)
(* event it is handed, whether or not a decide call returned it.           *)

Replay(e) ==
  /\ StoreInBounds(push(events, e))
  /\ result' = Unit
  /\ state' = evolve(state, e)
  /\ events' = push(events, e)
  /\ UNCHANGED <<command, event, given>>

ReplayTabOpened ==
  \E t \in TableNumbers, w \in Waiters : Replay(TabOpened(t, w))

ReplayOrdered ==
  \E e \in Events : e.type \in {"DrinksOrdered", "FoodOrdered"} /\ Replay(e)

ReplayServed ==
  \E e \in Events : e.type \in {"DrinksServed", "FoodServed"} /\ Replay(e)

NextReplay == ReplayTabOpened \/ ReplayOrdered \/ ReplayServed

SpecReplay == Init /\ [][NextReplay]_vars

-----------------------------------------------------------------------------
(* A single call: decide or evolve applied once to a State and an input    *)
(* drawn from the sets above.  The store plays no part in it.              *)

InitCall ==
  /\ state \in States
  /\ given = state
  /\ events = empty_store
  /\ result = NoResult
  /\ \/ command \in Commands /\ event = NoEvent
     \/ command = NoCommand /\ event \in Events

CallDecide ==
  /\ command # NoCommand
  /\ result = NoResult
  /\ result' = decide(state, command).result
  /\ state' = decide(state, command).state
  /\ UNCHANGED <<events, command, event, given>>

CallEvolve ==
  /\ event # NoEvent
  /\ result = NoResult
  /\ result' = Unit
  /\ state' = evolve(state, event)
  /\ UNCHANGED <<events, command, event, given>>

NextCall == CallDecide \/ CallEvolve

SpecCall == InitCall /\ [][NextCall]_vars

-----------------------------------------------------------------------------
(* Vocabulary of the properties *)

\* how many times menu number m occurs in a list of menu numbers
Occurrences(menu_numbers, m) ==
  Cardinality({i \in 1..Len(menu_numbers) : menu_numbers[i] = m})

\* how many entries of a list of items carry menu number m
Entries(list, m) ==
  Cardinality({i \in 1..Len(list) : list[i].menu_number = m})

\* every menu number is requested at most as often as the list holds it
Covered(list, menu_numbers) ==
  \A m \in MenuNumbers : Occurrences(menu_numbers, m) <= Entries(list, m)

IsDrink(i) == i.is_drink
IsFood(i) == ~i.is_drink

\* a decide call has returned / an evolve call has returned
Decided == command # NoCommand /\ result # NoResult
Evolved == event # NoEvent /\ result = Unit

\* the sum of the prices of the entries of a list of items
RECURSIVE SumPrices(_)
SumPrices(list) ==
  IF list = <<>> THEN 0 ELSE Head(list).price + SumPrices(Tail(list))

\* the rearrangements of a list of menu numbers
Permutations(menu_numbers) ==
  LET n == Len(menu_numbers)
      shuffles == {f \in [1..n -> 1..n] : \A i \in 1..n : \E j \in 1..n : f[j] = i}
  IN  {[i \in 1..n |-> menu_numbers[f[i]]] : f \in shuffles}

\* the entries of a list at the indices in kept, in the order of the list
Kept(list, kept) ==
  [j \in 1..Cardinality(kept) |->
     list[CHOOSE i \in kept : Cardinality({k \in kept : k <= i}) = j]]

\* list is what is left of ordered, in order, after one entry was taken out
\* for each occurrence of a menu number in served
IsRemainder(list, ordered, served) ==
  \E kept \in SUBSET (1..Len(ordered)) :
    /\ list = Kept(ordered, kept)
    /\ Len(list) + Len(served) = Len(ordered)
    /\ \A m \in MenuNumbers :
         Cardinality({i \in (1..Len(ordered)) \ kept :
                        ordered[i].menu_number = m})
           = Occurrences(served, m)

\* the smaller of two numbers
Min(a, b) == IF a <= b THEN a ELSE b

\* the indices of the entries of list that a serve of menu_numbers takes
\* out: of the entries with one menu number, as many of the earliest as
\* the number is named, or all of them if it is named more often
FirstMatches(list, menu_numbers) ==
  {i \in 1..Len(list) :
     Cardinality({j \in 1..i : list[j].menu_number = list[i].menu_number})
       <= Occurrences(menu_numbers, list[i].menu_number)}

\* the sum of the prices of the entries of list at the indices in at
RECURSIVE SumPricesAt(_, _)
SumPricesAt(list, at) ==
  IF at = {} THEN 0
  ELSE LET i == CHOOSE i \in at : TRUE
       IN  list[i].price + SumPricesAt(list, at \ {i})

-----------------------------------------------------------------------------
(* C1: on a State with tab_open = false, decide of PlaceOrder returns      *)
(* Err(TabNotOpen), an error value that carries no events, whatever the    *)
(* outstanding lists and whatever the items (the empty list included).     *)

C1_PlaceOrderNeedsOpenTab ==
  (Decided /\ command.type = "PlaceOrder" /\ ~given.tab_open)
    => result = Err(TabNotOpen)

\* a non-empty order refused on an unopened State that is not the initial one
C1_Witness ==
  /\ Decided
  /\ command.type = "PlaceOrder"
  /\ command.items # <<>>
  /\ ~given.tab_open
  /\ given.outstanding_drinks # <<>>
  /\ result = Err(TabNotOpen)

(* C2: decide of OpenTab returns Ok with exactly one event, TabOpened with *)
(* the table_number and waiter of the command, on every State.             *)

C2_OpenTabAlwaysOpens ==
  (Decided /\ command.type = "OpenTab")
    => result = Ok(<<TabOpened(command.table_number, command.waiter)>>)

\* OpenTab accepted on a tab that is open already and has items outstanding
C2_Witness ==
  /\ Decided
  /\ command.type = "OpenTab"
  /\ given.tab_open
  /\ given.outstanding_food # <<>>
  /\ result.tag = "Ok"

(* C3: on a State with tab_open = true, decide of PlaceOrder returns Ok.   *)
(* FoodOrdered is among the events iff some item is no drink, and carries  *)
(* the non-drink items in input order; DrinksOrdered is among them iff     *)
(* some item is a drink, and carries the drinks in input order; there is   *)
(* at most one of each and nothing else, FoodOrdered first; no items give  *)
(* no events.                                                              *)

C3_PlaceOrderPartitions ==
  (Decided /\ command.type = "PlaceOrder" /\ given.tab_open)
    => LET foods == SelectSeq(command.items, IsFood)
           drinks == SelectSeq(command.items, IsDrink)
           evs == result.events
           at(kind) == {k \in 1..Len(evs) : evs[k].type = kind}
       IN  /\ result.tag = "Ok"
           /\ \A k \in 1..Len(evs) :
                evs[k].type \in {"FoodOrdered", "DrinksOrdered"}
           /\ Cardinality(at("FoodOrdered")) = (IF foods = <<>> THEN 0 ELSE 1)
           /\ Cardinality(at("DrinksOrdered")) =
                (IF drinks = <<>> THEN 0 ELSE 1)
           /\ \A k \in at("FoodOrdered") : evs[k].items = foods
           /\ \A k \in at("DrinksOrdered") : evs[k].items = drinks
           /\ \A k \in at("FoodOrdered"), j \in at("DrinksOrdered") : k < j
           /\ (command.items = <<>> => evs = <<>>)

\* an order that names a drink before a food item, and gets both events
C3_Witness ==
  /\ Decided
  /\ command.type = "PlaceOrder"
  /\ given.tab_open
  /\ Len(command.items) = 2
  /\ command.items[1].is_drink
  /\ ~command.items[2].is_drink
  /\ result.tag = "Ok"
  /\ Len(result.events) = 2

(* C4: decide of MarkDrinksServed(requested) returns Ok iff every menu     *)
(* number occurs in requested at most as often as outstanding_drinks has   *)
(* entries with it; Ok carries the one event DrinksServed(requested), and  *)
(* otherwise the result is Err(DrinksNotOutstanding).  Likewise            *)
(* MarkFoodServed, outstanding_food, FoodServed, Err(FoodNotOutstanding).  *)

C4_ServeIffCovered ==
  /\ (Decided /\ command.type = "MarkDrinksServed")
       => result =
            IF Covered(given.outstanding_drinks, command.menu_numbers)
            THEN Ok(<<DrinksServed(command.menu_numbers)>>)
            ELSE Err(DrinksNotOutstanding)
  /\ (Decided /\ command.type = "MarkFoodServed")
       => result =
            IF Covered(given.outstanding_food, command.menu_numbers)
            THEN Ok(<<FoodServed(command.menu_numbers)>>)
            ELSE Err(FoodNotOutstanding)

\* one menu number requested twice and outstanding twice
C4_Witness ==
  /\ Decided
  /\ command.type = "MarkDrinksServed"
  /\ Len(command.menu_numbers) = 2
  /\ command.menu_numbers[1] = command.menu_numbers[2]
  /\ result.tag = "Ok"

(* C5: in the serialized loop no item is served twice: for every menu      *)
(* number m the accepted DrinksServed events name m at most as often as    *)
(* the accepted DrinksOrdered events carry an item with it, and once they  *)
(* name it that often, decide refuses every MarkDrinksServed that names m  *)
(* with Err(DrinksNotOutstanding).  Likewise food, FoodNotOutstanding.     *)

C5_NothingServedTwice ==
  \A m \in MenuNumbers :
    /\ Occurrences(events.drinks_served, m) <= Entries(events.drinks_ordered, m)
    /\ Occurrences(events.food_served, m) <= Entries(events.food_ordered, m)
    /\ Occurrences(events.drinks_served, m) = Entries(events.drinks_ordered, m)
         => \A ns \in NumberLists :
              Occurrences(ns, m) > 0
                => decide(state, MarkDrinksServed(ns)).result =
                     Err(DrinksNotOutstanding)
    /\ Occurrences(events.food_served, m) = Entries(events.food_ordered, m)
         => \A ns \in NumberLists :
              Occurrences(ns, m) > 0
                => decide(state, MarkFoodServed(ns)).result =
                     Err(FoodNotOutstanding)

\* a drink and a food item ordered, both served, and a further serve of
\* food refused
C5_Witness ==
  /\ events.drinks_ordered # <<>>
  /\ Len(events.drinks_served) = Len(events.drinks_ordered)
  /\ events.food_ordered # <<>>
  /\ Len(events.food_served) = Len(events.food_ordered)
  /\ result = Err(FoodNotOutstanding)

(* C6: decide leaves the State it is given as it was, whatever the command *)
(* and the outcome, also when a serve command is refused after some of its *)
(* numbers had matched; and a refusal is an error value with no events.    *)

C6_DecideLeavesState ==
  Decided
    => /\ state = given
       /\ result.tag = "Err" => DOMAIN result = {"tag", "error"}

\* MarkDrinksServed refused at its second number, the first one matched
C6_Witness ==
  /\ Decided
  /\ command.type = "MarkDrinksServed"
  /\ Len(command.menu_numbers) = 2
  /\ position(given.outstanding_drinks, command.menu_numbers[1]) # 0
  /\ result = Err(DrinksNotOutstanding)

(* C7: evolve of a DrinksServed or FoodServed event whose numbers are all  *)
(* matched by the outstanding list takes one entry out of it per number    *)
(* and adds to served_items_value the sum of the prices of the entries     *)
(* taken out; the value reached is the same for every rearrangement of     *)
(* the numbers.                                                            *)

C7_ServedValueIsSumOfPrices ==
  /\ (Evolved /\ event.type = "DrinksServed"
        /\ Covered(given.outstanding_drinks, event.menu_numbers))
       => /\ Len(state.outstanding_drinks) + Len(event.menu_numbers)
               = Len(given.outstanding_drinks)
          /\ state.served_items_value + SumPrices(state.outstanding_drinks)
               = given.served_items_value
                   + SumPrices(given.outstanding_drinks)
          /\ \A ns \in Permutations(event.menu_numbers) :
               evolve(given, DrinksServed(ns)).served_items_value
                 = state.served_items_value
  /\ (Evolved /\ event.type = "FoodServed"
        /\ Covered(given.outstanding_food, event.menu_numbers))
       => /\ Len(state.outstanding_food) + Len(event.menu_numbers)
               = Len(given.outstanding_food)
          /\ state.served_items_value + SumPrices(state.outstanding_food)
               = given.served_items_value + SumPrices(given.outstanding_food)
          /\ \A ns \in Permutations(event.menu_numbers) :
               evolve(given, FoodServed(ns)).served_items_value
                 = state.served_items_value

\* two drinks of different number and price served in the order opposite
\* to the order they were outstanding in, on top of a value served before
C7_Witness ==
  /\ Evolved
  /\ event.type = "DrinksServed"
  /\ Len(given.outstanding_drinks) = 2
  /\ given.outstanding_drinks[1].price # given.outstanding_drinks[2].price
  /\ event.menu_numbers = <<given.outstanding_drinks[2].menu_number,
                            given.outstanding_drinks[1].menu_number>>
  /\ event.menu_numbers[1] # event.menu_numbers[2]
  /\ given.served_items_value > 0
  /\ state.outstanding_drinks = <<>>
  /\ state.served_items_value = given.served_items_value + 3

(* C9: tab_open is false in every State folded from a history with no      *)
(* TabOpened event and true in every State folded from a history with      *)
(* one: no later event sets it back.                                       *)

C9_TabOpenIffTabOpened == state.tab_open = events.tab_opened

\* the tab opened, and drinks ordered and served
C9_Witness ==
  /\ state.tab_open
  /\ events.tab_opened
  /\ events.drinks_ordered # <<>>
  /\ events.drinks_served # <<>>
  /\ events.food_ordered # <<>>

(* C10: in the serialized loop outstanding_drinks is the items of the      *)
(* accepted DrinksOrdered events, in order, less one entry for each        *)
(* occurrence of its menu number in the accepted DrinksServed events.      *)
(* Likewise outstanding_food, FoodOrdered and FoodServed.                  *)

C10_OutstandingIsOrderedLessServed ==
  /\ IsRemainder(state.outstanding_drinks, events.drinks_ordered,
                 events.drinks_served)
  /\ IsRemainder(state.outstanding_food, events.food_ordered,
                 events.food_served)

\* two different drinks ordered, one of them served
C10_Witness ==
  /\ Len(events.drinks_ordered) = 2
  /\ events.drinks_ordered[1] # events.drinks_ordered[2]
  /\ Len(events.drinks_served) = 1
  /\ Len(state.outstanding_drinks) = 1

(* C11: in the serialized loop evolve never skips a number: when decide    *)
(* accepts MarkDrinksServed(requested), the fold of the DrinksServed event *)
(* it returns into the State decide saw takes Len(requested) entries out   *)
(* of outstanding_drinks and leaves the list the scan of decide ended      *)
(* with.  Likewise MarkFoodServed and outstanding_food.                    *)

C11_FoldTakesWhatScanTook ==
  [][/\ (/\ result'.tag = "Ok"
         /\ Len(result'.events) = 1
         /\ result'.events[1].type = "DrinksServed")
          => LET requested == result'.events[1].menu_numbers
             IN  /\ Len(state'.outstanding_drinks) + Len(requested)
                      = Len(state.outstanding_drinks)
                 /\ state'.outstanding_drinks
                      = are_drinks_outstanding(state, requested).current
     /\ (/\ result'.tag = "Ok"
         /\ Len(result'.events) = 1
         /\ result'.events[1].type = "FoodServed")
          => LET requested == result'.events[1].menu_numbers
             IN  /\ Len(state'.outstanding_food) + Len(requested)
                      = Len(state.outstanding_food)
                 /\ state'.outstanding_food
                      = is_food_outstanding(state, requested).current
    ]_vars

\* two drinks served with one accepted command
C11_Witness ==
  /\ result.tag = "Ok"
  /\ Len(result.events) = 1
  /\ result.events[1].type = "DrinksServed"
  /\ Len(result.events[1].menu_numbers) = 2
  /\ Len(events.drinks_ordered) = 2
  /\ state.outstanding_drinks = <<>>

(* C12: evolve of a DrinksServed or FoodServed event returns on every      *)
(* State, validated by decide or not.  A number with no entry left in the  *)
(* outstanding list changes nothing, and the other numbers of the event    *)
(* are still served: per menu number the list loses as many entries as     *)
(* the number is named, or all it has, and served_items_value grows by     *)
(* the prices of the entries lost.                                         *)

C12_UnmatchedNumbersAreSkipped ==
  /\ (Evolved /\ event.type = "DrinksServed")
       => /\ \A m \in MenuNumbers :
               Entries(state.outstanding_drinks, m)
                 = Entries(given.outstanding_drinks, m)
                     - Min(Occurrences(event.menu_numbers, m),
                           Entries(given.outstanding_drinks, m))
          /\ state.served_items_value + SumPrices(state.outstanding_drinks)
               = given.served_items_value
                   + SumPrices(given.outstanding_drinks)
          /\ (\A m \in MenuNumbers :
                Occurrences(event.menu_numbers, m) > 0
                  => Entries(given.outstanding_drinks, m) = 0)
               => state = given
  /\ (Evolved /\ event.type = "FoodServed")
       => /\ \A m \in MenuNumbers :
               Entries(state.outstanding_food, m)
                 = Entries(given.outstanding_food, m)
                     - Min(Occurrences(event.menu_numbers, m),
                           Entries(given.outstanding_food, m))
          /\ state.served_items_value + SumPrices(state.outstanding_food)
               = given.served_items_value + SumPrices(given.outstanding_food)
          /\ (\A m \in MenuNumbers :
                Occurrences(event.menu_numbers, m) > 0
                  => Entries(given.outstanding_food, m) = 0)
               => state = given

\* an event whose first number has no entry and whose second number has one
C12_Witness ==
  /\ Evolved
  /\ event.type = "DrinksServed"
  /\ Len(event.menu_numbers) = 2
  /\ Entries(given.outstanding_drinks, event.menu_numbers[1]) = 0
  /\ Entries(given.outstanding_drinks, event.menu_numbers[2]) > 0
  /\ Len(state.outstanding_drinks) + 1 = Len(given.outstanding_drinks)
  /\ state.served_items_value > given.served_items_value

(* C13: evolve of a DrinksServed or FoodServed event takes out, for each   *)
(* number, the earliest entry left with that menu number and no other,     *)
(* adds the price of that entry, and keeps the other entries in order.     *)

C14_EventsChangeTheirOwnFields ==
  Evolved
    => /\ event.type = "TabOpened"
            => state = [given EXCEPT !.tab_open = state.tab_open]
       /\ event.type = "DrinksOrdered"
            => state = [given EXCEPT
                          !.outstanding_drinks = state.outstanding_drinks]
       /\ event.type = "FoodOrdered"
            => state = [given EXCEPT
                          !.outstanding_food = state.outstanding_food]
       /\ event.type = "DrinksServed"
            => state = [given EXCEPT
                          !.outstanding_drinks = state.outstanding_drinks,
                          !.served_items_value = state.served_items_value]
       /\ event.type = "FoodServed"
            => state = [given EXCEPT
                          !.outstanding_food = state.outstanding_food,
                          !.served_items_value = state.served_items_value]

\* food served while a drink with the same menu number is outstanding
C14_Witness ==
  /\ Evolved
  /\ event.type = "FoodServed"
  /\ Len(event.menu_numbers) = 1
  /\ Entries(given.outstanding_drinks, event.menu_numbers[1]) = 1
  /\ Entries(given.outstanding_food, event.menu_numbers[1]) = 1
  /\ state.outstanding_food = <<>>
  /\ state.outstanding_drinks = given.outstanding_drinks

(* C15: evolve of DrinksOrdered{items} leaves outstanding_drinks equal to  *)
(* the old list followed by items in their order: nothing is left out or   *)
(* merged, so equal items are entries of their own, and a serve of their   *)
(* menu number takes one of them and leaves the others.  Likewise          *)
(* FoodOrdered and outstanding_food.                                       *)

C15_OrderedItemsAreAppended ==
  /\ (Evolved /\ event.type = "DrinksOrdered")
       => /\ state.outstanding_drinks = given.outstanding_drinks \o event.items
          /\ \A m \in MenuNumbers :
               /\ Entries(state.outstanding_drinks, m)
                    = Entries(given.outstanding_drinks, m)
                        + Entries(event.items, m)
               /\ Entries(state.outstanding_drinks, m) > 0
                    => Entries(evolve(state, DrinksServed(<<m>>))
                                 .outstanding_drinks, m) + 1
                         = Entries(state.outstanding_drinks, m)
  /\ (Evolved /\ event.type = "FoodOrdered")
       => /\ state.outstanding_food = given.outstanding_food \o event.items
          /\ \A m \in MenuNumbers :
               /\ Entries(state.outstanding_food, m)
                    = Entries(given.outstanding_food, m)
                        + Entries(event.items, m)
               /\ Entries(state.outstanding_food, m) > 0
                    => Entries(evolve(state, FoodServed(<<m>>))
                                 .outstanding_food, m) + 1
                         = Entries(state.outstanding_food, m)

\* the same item ordered twice in one event while it is outstanding already
C15_Witness ==
  /\ Evolved
  /\ event.type = "FoodOrdered"
  /\ Len(event.items) = 2
  /\ event.items[1] = event.items[2]
  /\ Len(given.outstanding_food) = 1
  /\ given.outstanding_food[1] = event.items[1]
  /\ Len(state.outstanding_food) = 3

(* C16: on an open tab decide of OpenTab still returns Ok with one         *)
(* TabOpened event, and the fold of a TabOpened event into an open tab     *)
(* leaves the State as it was, outstanding lists and served_items_value    *)
(* included: every further TabOpened gives the State the first one gave.   *)

C16_ReopeningChangesNothing ==
  /\ (Decided /\ command.type = "OpenTab" /\ given.tab_open)
       => /\ result.tag = "Ok"
          /\ Len(result.events) = 1
          /\ result.events[1].type = "TabOpened"
          /\ fold(given, result.events) = given
  /\ (Evolved /\ event.type = "TabOpened")
       => /\ given.tab_open => state = given
          /\ \A t \in TableNumbers, w \in Waiters :
               evolve(state, TabOpened(t, w)) = state

\* TabOpened folded into an open tab with items outstanding and a value
\* served
C16_Witness ==
  /\ Evolved
  /\ event.type = "TabOpened"
  /\ given.tab_open
  /\ given.outstanding_drinks # <<>>
  /\ given.outstanding_food # <<>>
  /\ given.served_items_value > 0
  /\ state = given

(* C17: whatever events are folded, in whatever order, also Served events  *)
(* that no decide call on the State at hand would have returned (two       *)
(* callers deciding on one snapshot), served_items_value plus the prices   *)
(* of all outstanding entries is the sum of the prices of all items of     *)
(* the DrinksOrdered and FoodOrdered events folded: no price counts twice. *)

C17_ValueIsConserved ==
  state.served_items_value + SumPrices(state.outstanding_drinks)
      + SumPrices(state.outstanding_food)
    = SumPrices(events.drinks_ordered) + SumPrices(events.food_ordered)

\* one drink ordered and its menu number served twice: its price is in
\* served_items_value once
C17_Witness ==
  /\ Len(events.drinks_ordered) = 1
  /\ events.food_ordered = <<>>
  /\ Len(events.drinks_served) = 2
  /\ events.drinks_served[1] = events.drinks_ordered[1].menu_number
  /\ events.drinks_served[2] = events.drinks_ordered[1].menu_number
  /\ state.outstanding_drinks = <<>>
  /\ state.served_items_value = events.drinks_ordered[1].price

(* C18: in the serialized loop every entry of outstanding_drinks is a      *)
(* drink and every entry of outstanding_food is not.                       *)

C18_ListsHoldTheirKind ==
  /\ \A i \in 1..Len(state.outstanding_drinks) :
       state.outstanding_drinks[i].is_drink
  /\ \A i \in 1..Len(state.outstanding_food) :
       ~state.outstanding_food[i].is_drink

\* a drink and a food item outstanding, ordered with one command
C18_Witness ==
  /\ result.tag = "Ok"
  /\ Len(result.events) = 2
  /\ Len(state.outstanding_drinks) = 1
  /\ Len(state.outstanding_food) = 1

(* C19: in the serialized loop a State with tab_open = false has nothing   *)
(* outstanding and served_items_value 0, so decide refuses every           *)
(* MarkDrinksServed with a non-empty list with Err(DrinksNotOutstanding)   *)
(* and every such MarkFoodServed with Err(FoodNotOutstanding), not with    *)
(* Err(TabNotOpen).                                                        *)

C19_UnopenedTabIsEmpty ==
  ~state.tab_open
    => /\ state.outstanding_drinks = <<>>
       /\ state.outstanding_food = <<>>
       /\ state.served_items_value = 0
       /\ \A ns \in NumberLists \ {<<>>} :
            /\ decide(state, MarkDrinksServed(ns)).result
                 = Err(DrinksNotOutstanding)
            /\ decide(state, MarkFoodServed(ns)).result
                 = Err(FoodNotOutstanding)

\* a serve of drinks refused on a tab that was never opened
C19_Witness ==
  /\ ~state.tab_open
  /\ ~events.tab_opened
  /\ result = Err(DrinksNotOutstanding)

(* C20: decide accepts a serve command with an empty list on every State,  *)
(* a tab never opened included, with one DrinksServed (FoodServed) event   *)
(* whose menu_numbers is empty, and the fold of that event leaves the      *)
(* State as it was.                                                        *)

C20_EmptyServeIsAccepted ==
  /\ (Decided /\ command = MarkDrinksServed(<<>>))
       => /\ result = Ok(<<DrinksServed(<<>>)>>)
          /\ fold(given, result.events) = given
  /\ (Decided /\ command = MarkFoodServed(<<>>))
       => /\ result = Ok(<<FoodServed(<<>>)>>)
          /\ fold(given, result.events) = given
  /\ (Evolved /\ event \in {DrinksServed(<<>>), FoodServed(<<>>)})
       => state = given

\* an empty serve of food accepted on an unopened State
C20_Witness ==
  /\ Decided
  /\ command = MarkFoodServed(<<>>)
  /\ ~given.tab_open
  /\ result.tag = "Ok"
  /\ Len(result.events) = 1
  /\ result.events[1].menu_numbers = <<>>

====
